---- MODULE Spec2Model ----
(***************************************************************************)
(* Model of build.py: the build-time script that resolves the latest       *)
(* approved model package of a model package group and extends the staging *)
(* and prod stage configurations for a deployment strategy.                *)
(*                                                                         *)
(* The script is one sequential run.  pc is the position of the run in     *)
(* __main__ (and, inside a call, in the called function).  The SageMaker   *)
(* service, the file system and the clock are the environment: every call  *)
(* to them is one step whose outcome is chosen among the outcomes the call *)
(* can have.                                                               *)
(*                                                                         *)
(* Floats are counted in quarters (1.0 is 4): on these values the float    *)
(* subtraction of line 140 is exact.                                       *)
(***************************************************************************)
EXTENDS Integers, Sequences, FiniteSets, TLC

VARIABLES
    pc,                  \* position of the run
    argv,                \* the command line
    args,                \* the parsed arguments (line 222)
    error,               \* the exception that ended the run, or NoError
    registry,            \* service: the packages of the group
    sort_order,          \* service: the order a listing without SortOrder comes in
    pages,               \* service: the pages of the listing this run is served
    page_no,             \* service: the page the last response carried
    response,            \* get_approved_package: response
    approved_packages,   \* get_approved_package: approved_packages
    visited,             \* history: every response received, in order
    model_package_arn,   \* __main__: model_package_arn
    stage,               \* which config __main__ is working on
    stage_config,        \* the imported config, then extend_config: stage_config
    timestamp,           \* extend_config: timestamp
    endpoint,            \* service: state of the stage's endpoint
    endpoint_config_ref, \* get_previous_model_name: endpoint_config_name
    caught,              \* get_previous_model_name: the ClientError handled
    previous_prod_model_name, \* extend_config: previous_prod_model_name
    new_params,          \* extend_config: new_params
    new_tags,            \* extend_config: new_tags
    project_tags,        \* get_pipeline_custom_tags: project_tags
    tag_fault,           \* get_pipeline_custom_tags: the fault suppressed
    config,              \* the config extend_config returned
    files,               \* the export files written so far
    steps                \* history: the steps of __main__ completed, in order

vars == <<pc, argv, args, error, registry, sort_order, pages, page_no, response,
          approved_packages, visited, model_package_arn, stage,
          stage_config, timestamp, endpoint, endpoint_config_ref, caught,
          previous_prod_model_name, new_params, new_tags, project_tags,
          tag_fault, config, files, steps>>

-----------------------------------------------------------------------------
(* Bounds of the model *)

MaxPackages == 3    \* packages in the model package group
MaxPages == 3       \* pages the service splits a listing into
MaxWeightQ == 5     \* largest --candidate-weight, in quarters
MaxTags == 2        \* tags on the project

(* Program constants *)

MaxResults == 100
NameLimit == 63
DefaultCandidateWeight == 4

None == "<none>"
EmptyMap == [k \in {} |-> None]
NoArgs == [unset |-> "args"]
NoConfig == [unset |-> "config"]

\* exceptions: their class, and their error code or message
Raised(type, detail) == [type |-> type, detail |-> detail]
NoError == Raised("<no error>", "")
ClientError(code) == Raised("ClientError", code)
Exception(message) == Raised("Exception", message)

-----------------------------------------------------------------------------
(* Text *)

\* str(float) for a float given in quarters: str(0.25) = "0.25", str(1.0) = "1.0"
StrFloat(q) ==
    LET a == IF q < 0 THEN -q ELSE q
        frac == CASE a % 4 = 0 -> "0"
                  [] a % 4 = 1 -> "25"
                  [] a % 4 = 2 -> "5"
                  [] a % 4 = 3 -> "75"
    IN (IF q < 0 THEN "-" ELSE "") \o ToString(a \div 4) \o "." \o frac

\* float(s) of a literal on the command line
ParseFloat(s) == CHOOSE q \in 0..(MaxWeightQ + 4) : StrFloat(q) = s

\* text[:63].  Every name the model builds has at most NameLimit characters
\* (NamesFit below), where the slice leaves the text as it is.
Truncate(text) == IF Len(text) <= NameLimit THEN text ELSE None

-----------------------------------------------------------------------------
(* Command line *)

NoFlag == "<flag omitted>"
StrategyChoices == {"first", "ab", "canary", "bluegreen", "shadow"}
StrategyDefault == "single"
SagemakerProjectName == "churn"
SagemakerProjectId == "p-ssipyopi0bjo"
S3Bucket == "bucket"
ModelExecutionRole == "arn:role"

CommandLines ==
    [deployment_strategy : StrategyChoices \cup {NoFlag, "rolling"},
     candidate_weight : {NoFlag} \cup {StrFloat(q) : q \in 0..MaxWeightQ},
     export_cfn_params_tags : {NoFlag, "False"}]

\* argparse rejects a value of the flag that is not among choices
ParserAccepts(cl) ==
    cl.deployment_strategy \in StrategyChoices \cup {NoFlag}

\* bool(s) of type=bool
ParseBool(s) == s # ""

ParsedArgs(cl) ==
    [deployment_strategy |->
        IF cl.deployment_strategy = NoFlag THEN StrategyDefault
        ELSE cl.deployment_strategy,
     candidate_weight |->
        IF cl.candidate_weight = NoFlag THEN DefaultCandidateWeight
        ELSE ParseFloat(cl.candidate_weight),
     export_cfn_params_tags |->
        IF cl.export_cfn_params_tags = NoFlag THEN FALSE
        ELSE ParseBool(cl.export_cfn_params_tags),
     sagemaker_project_name |-> SagemakerProjectName,
     sagemaker_project_id |-> SagemakerProjectId,
     s3_bucket |-> S3Bucket,
     model_execution_role |-> ModelExecutionRole]

-----------------------------------------------------------------------------
(* Variable groups *)

queryVars == <<registry, sort_order, pages, page_no, response,
               approved_packages, visited>>
lookupVars == <<endpoint, endpoint_config_ref, caught, previous_prod_model_name>>
tagVars == <<project_tags, tag_fault>>
extendVars == <<stage_config, timestamp, new_params, new_tags, config>>
mainVars == <<argv, args, model_package_arn, stage, files, steps>>

\* an uncaught exception ends the run
Abort(e) == pc' = "aborted" /\ error' = e

-----------------------------------------------------------------------------
(* The model registry, as list_model_packages shows it *)

Statuses == {"Approved", "Rejected"}

\* version i of the group was created i-th
Package(i, status) ==
    [ModelPackageArn |-> "arn:model-package/" \o ToString(i),
     CreationTime |-> i,
     ModelApprovalStatus |-> status]

Registries ==
    UNION {{{Package(i, st[i]) : i \in 1..n} : st \in [1..n -> Statuses]} :
           n \in 0..MaxPackages}

SortOrders == {"Ascending", "Descending"}

RECURSIVE SortByCreationTime(_, _)
SortByCreationTime(packages, order) ==
    IF packages = {} THEN <<>>
    ELSE LET head == CHOOSE p \in packages : \A o \in packages :
                        IF order = "Ascending"
                        THEN p.CreationTime <= o.CreationTime
                        ELSE p.CreationTime >= o.CreationTime
         IN <<head>> \o SortByCreationTime(packages \ {head}, order)

\* the listing of a request with ModelApprovalStatus="Approved",
\* SortBy="CreationTime" and no SortOrder
ListModelPackages(reg, order) ==
    SortByCreationTime({p \in reg : p.ModelApprovalStatus = "Approved"}, order)

\* the ways the service may cut a listing into pages of at most MaxResults
\* entries; a page may be empty and still carry a NextToken
Paginations(listing) ==
    LET n == Len(listing)
        Cuts(m) == {c \in [0..m -> 0..n] :
                      /\ c[0] = 0
                      /\ c[m] = n
                      /\ \A k \in 1..m : /\ c[k-1] <= c[k]
                                         /\ c[k] - c[k-1] <= MaxResults}
    IN UNION {{[k \in 1..m |-> SubSeq(listing, c[k-1] + 1, c[k])] : c \in Cuts(m)} :
              m \in 1..MaxPages}

\* the response that carries page k of pgs
Response(pgs, k) ==
    [ModelPackageSummaryList |-> pgs[k], HasNextToken |-> k < Len(pgs)]

NoResponse == [ModelPackageSummaryList |-> <<>>, HasNextToken |-> FALSE]

\* the faults of a call to the service
ClientErrorCodes == {"ValidationException", "ResourceNotFound", "ThrottlingException"}
ClientErrors == {ClientError(c) : c \in ClientErrorCodes}
OtherFaults == {Raised("EndpointConnectionError", "")}

\* e.response["Error"]["Message"]
Message(e) == "message of " \o e.detail

-----------------------------------------------------------------------------
(* get_approved_package *)

\* a loop that goes on while there is a continuation token, found or not
FetchWhileToken(approved, resp) == resp.HasNextToken

\* line 34: the condition of the while loop
FetchMore(approved, resp) == Len(approved) = 0 /\ resp.HasNextToken

\* line 46
NoPackagesFound(approved) == Len(approved) = 0

\* line 54
FirstPackageArn(approved) == approved[1].ModelPackageArn

\* lines 57-60: a ClientError becomes an Exception with its message; any other
\* fault passes through
RegistryFault(e) == IF e.type = "ClientError" THEN Exception(Message(e)) ELSE e

NotFoundError == Exception("No approved ModelPackage found for ModelPackageGroup")

\* lines 25-31: the first request
ListFirstPage ==
    /\ pc = "list_first"
    /\ \/ \E reg \in Registries, order \in SortOrders :
            \E pgs \in Paginations(ListModelPackages(reg, order)) :
               /\ registry' = reg
               /\ sort_order' = order
               /\ pages' = pgs
               /\ page_no' = 1
               /\ response' = Response(pgs, 1)
               /\ approved_packages' = pgs[1]
               /\ visited' = <<Response(pgs, 1)>>
               /\ pc' = "while"
               /\ error' = error
       \/ \E e \in ClientErrors \cup OtherFaults :
            /\ Abort(RegistryFault(e))
            /\ UNCHANGED queryVars
    /\ UNCHANGED <<mainVars, lookupVars, tagVars, extendVars>>

\* lines 34-43: one turn of the while loop
ListNextPage ==
    /\ pc = "while"
    /\ FetchMore(approved_packages, response)
    /\ \/ /\ page_no' = page_no + 1
          /\ response' = Response(pages, page_no + 1)
          /\ approved_packages' = approved_packages \o pages[page_no + 1]
          /\ visited' = Append(visited, Response(pages, page_no + 1))
          /\ UNCHANGED <<pc, error, registry, sort_order, pages>>
       \/ \E e \in ClientErrors \cup OtherFaults :
            /\ Abort(RegistryFault(e))
            /\ UNCHANGED queryVars
    /\ UNCHANGED <<mainVars, lookupVars, tagVars, extendVars>>

\* lines 46-51
RaiseNotFound ==
    /\ pc = "while"
    /\ ~FetchMore(approved_packages, response)
    /\ NoPackagesFound(approved_packages)
    /\ Abort(NotFoundError)
    /\ UNCHANGED <<queryVars, mainVars, lookupVars, tagVars, extendVars>>

-----------------------------------------------------------------------------
(* __main__: the order of the steps *)

Stages == {"staging", "prod"}

\* a run that writes the params and tags files whatever the flag, and the prod
\* files before the prod config
NextPositionCfnFirst(done, stg, export_cfn_params_tags) ==
    CASE done = "query" -> [pc |-> "load_config", stage |-> "staging"]
      [] done = "extend" -> [pc |-> "export_params", stage |-> stg]
      [] done = "params" -> [pc |-> "export_tags", stage |-> stg]
      [] done = "tags" -> [pc |-> "export_config", stage |-> stg]
      [] done = "config" -> IF stg = "staging"
                            THEN [pc |-> "load_config", stage |-> "prod"]
                            ELSE [pc |-> "done", stage |-> stg]

\* lines 233-251: the position that follows `done` for config `stg`, where
\* done is "query", "extend", "config", "params" or "tags"
NextPosition(done, stg, export_cfn_params_tags) ==
    LET next_config == IF stg = "staging"
                       THEN [pc |-> "load_config", stage |-> "prod"]
                       ELSE [pc |-> "done", stage |-> stg]
    IN CASE done = "query" -> [pc |-> "load_config", stage |-> "staging"]
         [] done = "extend" -> [pc |-> "export_config", stage |-> stg]
         [] done = "config" -> IF export_cfn_params_tags
                               THEN [pc |-> "export_params", stage |-> stg]
                               ELSE next_config
         [] done = "params" -> [pc |-> "export_tags", stage |-> stg]
         [] done = "tags" -> next_config

Step(done, stg) == IF done = "query" THEN done ELSE done \o ":" \o stg

\* the run moves on from the step `done`
Advance(done) ==
    LET next == NextPosition(done, stage, args.export_cfn_params_tags)
    IN /\ pc' = next.pc
       /\ stage' = next.stage
       /\ steps' = Append(steps, Step(done, stage))
       /\ error' = error

\* lines 204-222
ParseArgs ==
    /\ pc = "parse"
    /\ IF ParserAccepts(argv)
       THEN /\ args' = ParsedArgs(argv)
            /\ pc' = "list_first"
       ELSE /\ args' = args
            /\ pc' = "usage_exit"
    /\ UNCHANGED <<argv, error, model_package_arn, stage, files, steps,
                   queryVars, lookupVars, tagVars, extendVars>>

\* lines 54-56 and 230
ReturnPackageArn ==
    /\ pc = "while"
    /\ ~FetchMore(approved_packages, response)
    /\ ~NoPackagesFound(approved_packages)
    /\ model_package_arn' = FirstPackageArn(approved_packages)
    /\ Advance("query")
    /\ UNCHANGED <<argv, args, files, queryVars, lookupVars, tagVars, extendVars>>

-----------------------------------------------------------------------------
(* The imported config files *)

BaseParameterValue(key, stg) ==
    CASE key = "StageName" -> stg
      [] key = "InstanceType" -> "ml.m5.large"
      [] key = "PreviousModelWeight" -> "0.9"

BaseTagValue(key) ==
    CASE key = "team" -> "data-science"
      [] key = "sagemaker:project-id" -> "p-imported"

BaseParameters(stg) ==
    {[k \in keys |-> BaseParameterValue(k, stg)] :
        keys \in SUBSET {"StageName", "InstanceType", "PreviousModelWeight"}}

BaseTags ==
    {[k \in keys |-> BaseTagValue(k)] : keys \in SUBSET {"team", "sagemaker:project-id"}}

\* a config file holds a Parameters section, a Tags section, both or neither
BaseConfigs(stg) ==
    {[Parameters |-> p, Tags |-> t] : p \in BaseParameters(stg), t \in BaseTags}
    \cup {[Parameters |-> p] : p \in BaseParameters(stg)}
    \cup {[Tags |-> t] : t \in BaseTags}

FileFaults == {Raised("OSError", ""), Raised("JSONDecodeError", "")}

\* lines 234-235 and 244-245: open and json.load of the stage's config file.
\* The locals of get_approved_package are gone by now.
LoadConfig ==
    /\ pc = "load_config"
    /\ \/ \E cfg \in BaseConfigs(stage) :
             /\ stage_config' = cfg
             /\ pc' = "validate"
             /\ error' = error
       \/ \E e \in FileFaults :
             /\ Abort(e)
             /\ stage_config' = stage_config
    /\ registry' = {}
    /\ sort_order' = None
    /\ pages' = <<>>
    /\ page_no' = 0
    /\ response' = NoResponse
    /\ approved_packages' = <<>>
    /\ visited' = <<>>
    /\ UNCHANGED <<mainVars, lookupVars, tagVars, timestamp, new_params,
                   new_tags, config>>

-----------------------------------------------------------------------------
(* extend_config: validation and names *)

\* a check of the Parameters section alone
MissingParameters(cfg) == "Parameters" \notin DOMAIN cfg

\* line 94
MissingStageName(cfg) ==
    "Parameters" \notin DOMAIN cfg \/ "StageName" \notin DOMAIN cfg["Parameters"]

StageNameError == Exception("Configuration file must include SageName parameter")

\* lines 96-97
WithTags(cfg) ==
    IF "Tags" \notin DOMAIN cfg THEN [Parameters |-> cfg["Parameters"], Tags |-> EmptyMap]
    ELSE cfg

\* line 101: datetime.utcnow().strftime("%Y%m%d%H%M%S")
Timestamps == {"20240101093000"}

\* line 103
CandidateModelName(a, stage_name, ts) ==
    Truncate("Model-" \o a.sagemaker_project_name \o "-" \o stage_name \o "-"
             \o a.deployment_strategy \o "-" \o ts)

\* line 104
EndpointConfigName(a, stage_name, ts) ==
    "EndpointConfig-" \o a.sagemaker_project_name \o "-" \o stage_name \o "-" \o ts

\* line 105
EndpointName(a, stage_name) ==
    "Endpoint-" \o a.sagemaker_project_name \o "-" \o stage_name

\* line 119
DataCaptureUploadPath(a, stage_name) ==
    "s3://" \o a.s3_bucket \o "/datacapture-" \o stage_name

\* lines 94-105
Validate ==
    /\ pc = "validate"
    /\ IF MissingStageName(stage_config)
       THEN /\ Abort(StageNameError)
            /\ UNCHANGED <<stage_config, timestamp>>
       ELSE /\ stage_config' = WithTags(stage_config)
            /\ timestamp' \in Timestamps
            /\ pc' = "describe_endpoint"
            /\ error' = error
    /\ UNCHANGED <<mainVars, queryVars, lookupVars, tagVars, new_params,
                   new_tags, config>>

-----------------------------------------------------------------------------
(* get_previous_model_name *)

\* what the service holds for the endpoint of the stage: no endpoint, an
\* endpoint with its endpoint configuration, or an endpoint whose endpoint
\* configuration has been deleted
EndpointStates == {"absent", "in-service", "config-deleted"}

Returned(value) == [ok |-> TRUE, value |-> value, fault |-> NoError]
Failed(e) == [ok |-> FALSE, value |-> "", fault |-> e]

\* faults a call may end in whatever the service holds
TransientFaults == {ClientError("ThrottlingException")} \cup OtherFaults

\* line 65: sm_client.describe_endpoint
DescribeEndpointOutcomes(ep) ==
    (IF ep = "absent"
     THEN {Failed(ClientError(c)) : c \in {"ValidationException", "ResourceNotFound"}}
     ELSE {Returned("EndpointConfig-deployed")})
    \cup {Failed(e) : e \in TransientFaults}

\* lines 68-72: sm_client.describe_endpoint_config and the ModelName of the
\* first production variant
DescribeEndpointConfigOutcomes(ep) ==
    (IF ep = "in-service"
     THEN {Returned("Model-deployed")}
     ELSE {Failed(ClientError("ValidationException"))})
    \cup {Failed(e) : e \in TransientFaults}

\* line 78
EndpointDoesNotExist(error_code) ==
    error_code \in {"ValidationException", "ResourceNotFound"}

\* lines 74-86: the except clause
HandleLookupFault(e) ==
    IF e.type = "ClientError" /\ EndpointDoesNotExist(e.detail)
    THEN /\ previous_prod_model_name' = ""
         /\ caught' = e
         /\ pc' = "check_strategy"
         /\ error' = error
    ELSE /\ Abort(e)
         /\ UNCHANGED <<previous_prod_model_name, caught>>

\* lines 65-66
DescribeEndpoint ==
    /\ pc = "describe_endpoint"
    /\ \E ep \in EndpointStates :
         /\ endpoint' = ep
         /\ \E out \in DescribeEndpointOutcomes(ep) :
              IF out.ok
              THEN /\ endpoint_config_ref' = out.value
                   /\ pc' = "describe_endpoint_config"
                   /\ UNCHANGED <<error, previous_prod_model_name, caught>>
              ELSE /\ HandleLookupFault(out.fault)
                   /\ endpoint_config_ref' = endpoint_config_ref
    /\ UNCHANGED <<mainVars, queryVars, tagVars, extendVars>>

\* lines 68-72
DescribeEndpointConfig ==
    /\ pc = "describe_endpoint_config"
    /\ \E out \in DescribeEndpointConfigOutcomes(endpoint) :
         IF out.ok
         THEN /\ previous_prod_model_name' = out.value
              /\ pc' = "check_strategy"
              /\ UNCHANGED <<error, caught>>
         ELSE HandleLookupFault(out.fault)
    /\ UNCHANGED <<endpoint, endpoint_config_ref, mainVars, queryVars, tagVars,
                   extendVars>>

-----------------------------------------------------------------------------
(* extend_config: strategy, parameters and tags *)

\* a check that asks for an endpoint for the traffic-splitting strategies only
RequiresEndpointForSplit(strategy, previous) ==
    strategy \in {"canary", "ab"} /\ previous = ""

\* line 109
RequiresExistingEndpoint(strategy, previous) ==
    strategy \notin {"first"} /\ previous = ""

EndpointRequiredError(strategy) == Exception(strategy \o " requires an existing endpoint")

\* both weights whatever the strategy
WeightParamsBoth(strategy, candidate_weight) ==
    ("CandidateModelWeight" :> StrFloat(candidate_weight))
    @@ ("PreviousModelWeight" :> StrFloat(4 - candidate_weight))

\* lines 138-142
WeightParams(strategy, candidate_weight) ==
    IF strategy \in {"canary", "ab"}
    THEN ("CandidateModelWeight" :> StrFloat(candidate_weight))
         @@ ("PreviousModelWeight" :> StrFloat(4 - candidate_weight))
    ELSE ("CandidateModelWeight" :> StrFloat(candidate_weight))

\* lines 116-142
NewParams(a, arn, cfg, previous, ts) ==
    LET stage_name == cfg["Parameters"]["StageName"]
    IN WeightParams(a.deployment_strategy, a.candidate_weight)
       @@ [SageMakerProjectName |-> a.sagemaker_project_name,
           DataCaptureUploadPath |-> DataCaptureUploadPath(a, stage_name),
           ModelPackageName |-> arn,
           ModelExecutionRoleArn |-> a.model_execution_role,
           PreviousModelName |-> previous,
           CandidateModelName |-> CandidateModelName(a, stage_name, ts),
           EndpointConfigName |-> EndpointConfigName(a, stage_name, ts),
           EndpointName |-> EndpointName(a, stage_name),
           DeploymentStrategy |-> a.deployment_strategy]

\* lines 144-149
NewTags(a, cfg) ==
    ("sagemaker:deployment-stage" :> cfg["Parameters"]["StageName"])
    @@ ("sagemaker:project-id" :> a.sagemaker_project_id)
    @@ ("sagemaker:project-name" :> a.sagemaker_project_name)
    @@ ("sagemaker:deployment-strategy" :> a.deployment_strategy)

\* lines 109-149.  The locals of get_previous_model_name are gone by now.
CheckStrategy ==
    /\ pc = "check_strategy"
    /\ IF RequiresExistingEndpoint(args.deployment_strategy, previous_prod_model_name)
       THEN /\ Abort(EndpointRequiredError(args.deployment_strategy))
            /\ UNCHANGED <<new_params, new_tags, endpoint, endpoint_config_ref, caught>>
       ELSE /\ new_params' = NewParams(args, model_package_arn, stage_config,
                                       previous_prod_model_name, timestamp)
            /\ new_tags' = NewTags(args, stage_config)
            /\ endpoint' = None
            /\ endpoint_config_ref' = None
            /\ caught' = NoError
            /\ pc' = "describe_project"
            /\ error' = error
    /\ UNCHANGED <<mainVars, queryVars, tagVars, previous_prod_model_name,
                   stage_config, timestamp, config>>

-----------------------------------------------------------------------------
(* get_pipeline_custom_tags *)

ProjectTagValue(key) ==
    CASE key = "team" -> "ml-platform"
      [] key = "sagemaker:project-id" -> "p-from-project"

\* the records of response["Tags"]; a record may lack its Value
TagRecords ==
    {[Key |-> k, Value |-> ProjectTagValue(k)] : k \in {"team", "sagemaker:project-id"}}
    \cup {[Key |-> "incomplete"]}

ProjectTagLists ==
    {tags \in UNION {[1..n -> TagRecords] : n \in 0..MaxTags} :
        \A i, j \in DOMAIN tags : i # j => tags[i]["Key"] # tags[j]["Key"]}

\* lines 169-170: the for loop, up to the record that cannot be read
RECURSIVE OverlayTags(_, _)
OverlayTags(tags, nt) ==
    IF tags = <<>> THEN [tags |-> nt, fault |-> NoError]
    ELSE LET project_tag == Head(tags)
         IN IF "Value" \notin DOMAIN project_tag
            THEN [tags |-> nt, fault |-> Raised("KeyError", "Value")]
            ELSE OverlayTags(Tail(tags),
                             (project_tag["Key"] :> project_tag["Value"]) @@ nt)

\* no except clause
EnrichmentRaisesFault(fault) == fault

\* lines 171-172: what the except clause lets out of the function
EnrichmentRaises(fault) == NoError

\* {**new, **base}
MergeBaseFirst(base, new) ==
    [k \in DOMAIN base \cup DOMAIN new |-> IF k \in DOMAIN base THEN base[k] ELSE new[k]]

\* {**base, **new}
Merge(base, new) ==
    [k \in DOMAIN base \cup DOMAIN new |-> IF k \in DOMAIN new THEN new[k] ELSE base[k]]

\* lines 154-157
ExtendedConfig(cfg, np, nt) ==
    [Parameters |-> Merge(cfg["Parameters"], np), Tags |-> Merge(cfg["Tags"], nt)]

\* lines 171-173 and 154-157: get_pipeline_custom_tags ends, with `fault`
\* raised inside its try or none, and extend_config returns
FinishTags(nt, fault) ==
    /\ new_tags' = nt
    /\ tag_fault' = fault
    /\ IF fault = NoError \/ EnrichmentRaises(fault) = NoError
       THEN /\ config' = ExtendedConfig(stage_config, new_params, nt)
            /\ Advance("extend")
       ELSE /\ Abort(EnrichmentRaises(fault))
            /\ UNCHANGED <<config, stage, steps>>

\* lines 162-165
DescribeProject ==
    /\ pc = "describe_project"
    /\ \/ /\ pc' = "list_tags"
          /\ UNCHANGED <<error, new_tags, tag_fault, config, stage, steps>>
       \/ \E e \in ClientErrors \cup OtherFaults : FinishTags(new_tags, e)
    /\ UNCHANGED <<argv, args, model_package_arn, files, queryVars, lookupVars,
                   project_tags, stage_config, timestamp, new_params>>

\* lines 166-170
ListTags ==
    /\ pc = "list_tags"
    /\ \/ \E tags \in ProjectTagLists :
            LET overlaid == OverlayTags(tags, new_tags)
            IN /\ project_tags' = tags
               /\ FinishTags(overlaid.tags, overlaid.fault)
       \/ \E e \in ClientErrors \cup OtherFaults :
            /\ project_tags' = project_tags
            /\ FinishTags(new_tags, e)
    /\ UNCHANGED <<argv, args, model_package_arn, files, queryVars, lookupVars,
                   stage_config, timestamp, new_params>>

-----------------------------------------------------------------------------
(* Export *)

ExportFile(stg, kind) == stg \o "-" \o kind \o "-export.json"

\* open(path, "w") and json.dump; the step `kind` is done when the file is
\* written.  Once the last file of a stage is written its config is read no more.
WriteFile(kind) ==
    \/ /\ files' = files \cup {ExportFile(stage, kind)}
       /\ Advance(kind)
       /\ config' = IF pc' \in {"export_params", "export_tags"} THEN config ELSE NoConfig
    \/ \E e \in {Raised("OSError", "")} :
         /\ Abort(e)
         /\ UNCHANGED <<files, stage, steps, config>>

\* lines 237-238 and 247-248.  The locals of extend_config are gone by now.
ExportConfig ==
    /\ pc = "export_config"
    /\ WriteFile("config")
    /\ stage_config' = NoConfig
    /\ timestamp' = None
    /\ previous_prod_model_name' = None
    /\ new_params' = EmptyMap
    /\ new_tags' = EmptyMap
    /\ project_tags' = <<>>
    /\ tag_fault' = NoError
    /\ UNCHANGED <<argv, args, model_package_arn, queryVars, endpoint,
                   endpoint_config_ref, caught>>

\* lines 196-198
ExportParams ==
    /\ pc = "export_params"
    /\ WriteFile("params")
    /\ UNCHANGED <<argv, args, model_package_arn, queryVars, lookupVars, tagVars,
                   stage_config, timestamp, new_params, new_tags>>

\* lines 199-200
ExportTags ==
    /\ pc = "export_tags"
    /\ WriteFile("tags")
    /\ UNCHANGED <<argv, args, model_package_arn, queryVars, lookupVars, tagVars,
                   stage_config, timestamp, new_params, new_tags>>

-----------------------------------------------------------------------------
(* The run *)

Init ==
    /\ pc = "parse"
    /\ argv \in CommandLines
    /\ args = NoArgs
    /\ error = NoError
    /\ registry = {}
    /\ sort_order = None
    /\ pages = <<>>
    /\ page_no = 0
    /\ response = NoResponse
    /\ approved_packages = <<>>
    /\ visited = <<>>
    /\ model_package_arn = None
    /\ stage = "staging"
    /\ stage_config = NoConfig
    /\ timestamp = None
    /\ endpoint = None
    /\ endpoint_config_ref = None
    /\ caught = NoError
    /\ previous_prod_model_name = None
    /\ new_params = EmptyMap
    /\ new_tags = EmptyMap
    /\ project_tags = <<>>
    /\ tag_fault = NoError
    /\ config = NoConfig
    /\ files = {}
    /\ steps = <<>>

Next ==
    \/ ParseArgs
    \/ ListFirstPage
    \/ ListNextPage
    \/ RaiseNotFound
    \/ ReturnPackageArn
    \/ LoadConfig
    \/ Validate
    \/ DescribeEndpoint
    \/ DescribeEndpointConfig
    \/ CheckStrategy
    \/ DescribeProject
    \/ ListTags
    \/ ExportConfig
    \/ ExportParams
    \/ ExportTags

Spec == Init /\ [][Next]_vars

\* every name the model builds is left whole by [:63]
NamesFit ==
    "CandidateModelName" \in DOMAIN new_params
        => new_params["CandidateModelName"] # None

-----------------------------------------------------------------------------
(* Properties *)

Approved(reg) == {p \in reg : p.ModelApprovalStatus = "Approved"}

\* the approved package of the group that was created last
LatestApproved(reg) ==
    CHOOSE p \in Approved(reg) : \A o \in Approved(reg) : o.CreationTime <= p.CreationTime

\* get_approved_package has just returned to __main__
QueryReturned == pc = "load_config" /\ stage = "staging"

\* C1: the ARN get_approved_package returns is that of the approved package
\* with the greatest creation time, whatever the registry holds and however
\* the listing is cut into pages.
C1_ReturnsLatestApproved ==
    QueryReturned => model_package_arn = LatestApproved(registry).ModelPackageArn

IsEmptyPage(r) == r.ModelPackageSummaryList = <<>>

\* C2: a further page is requested only after pages that were all empty and
\* carried a continuation token; the query returns only once a page was not
\* empty; and it fails with the not-found error exactly when every page
\* visited was empty and the last response carried no continuation token
\* (then no page of the listing is left unvisited).
C2_PaginatesUntilFoundOrExhausted ==
    /\ \A i \in 1..(Len(visited) - 1) :
          IsEmptyPage(visited[i]) /\ visited[i].HasNextToken
    /\ QueryReturned =>
          /\ visited # <<>>
          /\ ~IsEmptyPage(visited[Len(visited)])
    /\ error = NotFoundError <=>
          /\ pc = "aborted"
          /\ visited # <<>>
          /\ \A i \in DOMAIN visited : IsEmptyPage(visited[i])
          /\ ~visited[Len(visited)].HasNextToken
    /\ error = NotFoundError => Len(visited) = Len(pages)

C2_Witness ==
    /\ error = NotFoundError
    /\ Len(visited) = MaxPages
    /\ registry # {}

C2_WitnessFound ==
    /\ QueryReturned
    /\ Len(visited) = 2
    /\ Len(pages) = 3

\* extend_config is past line 113 for the current stage
ExtensionProceeds == pc \in {"describe_project", "list_tags", "export_config"}

\* extend_config has just returned to __main__
ExtendReturned == pc = "export_config"

\* C3: with a strategy other than "first", extend_config fails with the
\* configuration error whenever the endpoint lookup resolved no previous
\* model name; extension goes on with an empty PreviousModelName only when
\* the strategy is "first".
C3_StrategyNeedsPreviousModel ==
    /\ (previous_prod_model_name = "" /\ args.deployment_strategy # "first") =>
          \/ pc = "check_strategy"
          \/ /\ pc = "aborted"
             /\ error = Exception(args.deployment_strategy \o " requires an existing endpoint")
             /\ config = NoConfig
    /\ (ExtensionProceeds /\ previous_prod_model_name = "") =>
          args.deployment_strategy = "first"
    /\ (ExtendReturned /\ config["Parameters"]["PreviousModelName"] = "") =>
          args.deployment_strategy = "first"

C3_Witness ==
    /\ pc = "aborted"
    /\ previous_prod_model_name = ""
    /\ args.deployment_strategy = "bluegreen"
    /\ stage = "prod"

C3_WitnessFirst ==
    /\ ExtendReturned
    /\ config["Parameters"]["PreviousModelName"] = ""

\* C4, as claimed: canary and ab put CandidateModelWeight = weight and
\* PreviousModelWeight = 1.0 - weight into the output Parameters; any other
\* strategy puts CandidateModelWeight there and the output has no
\* PreviousModelWeight key.
C4_WeightsAsClaimed ==
    ExtendReturned =>
        LET P == config["Parameters"]
        IN /\ P["CandidateModelWeight"] = StrFloat(args.candidate_weight)
           /\ IF args.deployment_strategy \in {"canary", "ab"}
              THEN /\ "PreviousModelWeight" \in DOMAIN P
                   /\ P["PreviousModelWeight"] = StrFloat(4 - args.candidate_weight)
              ELSE "PreviousModelWeight" \notin DOMAIN P

\* C4, amended: canary and ab put CandidateModelWeight = weight and
\* PreviousModelWeight = 1.0 - weight into the output Parameters; any other
\* strategy puts CandidateModelWeight there, and the output has a
\* PreviousModelWeight key only when the base config has one, with the base
\* config's value.
C4_Weights ==
    ExtendReturned =>
        LET P == config["Parameters"]
            B == stage_config["Parameters"]
        IN /\ P["CandidateModelWeight"] = StrFloat(args.candidate_weight)
           /\ IF args.deployment_strategy \in {"canary", "ab"}
              THEN /\ "PreviousModelWeight" \in DOMAIN P
                   /\ P["PreviousModelWeight"] = StrFloat(4 - args.candidate_weight)
              ELSE /\ "PreviousModelWeight" \in DOMAIN P <=> "PreviousModelWeight" \in DOMAIN B
                   /\ "PreviousModelWeight" \in DOMAIN P =>
                         P["PreviousModelWeight"] = B["PreviousModelWeight"]

C4_Witness ==
    /\ ExtendReturned
    /\ args.deployment_strategy = "canary"
    /\ args.candidate_weight = 1
    /\ config["Parameters"]["PreviousModelWeight"] = "0.75"
    /\ "PreviousModelWeight" \in DOMAIN stage_config["Parameters"]

C4_WitnessOther ==
    /\ ExtendReturned
    /\ args.deployment_strategy = "shadow"
    /\ "PreviousModelWeight" \in DOMAIN config["Parameters"]

HasStageName(cfg) ==
    /\ "Parameters" \in DOMAIN cfg
    /\ "StageName" \in DOMAIN cfg["Parameters"]

\* C5: with a base config that has no Parameters section, or no StageName in
\* it, extend_config fails with the configuration error before it calls the
\* service, whatever the strategy, and neither returns nor exports a config
\* for the stage.
C5_MissingStageNameFails ==
    (stage_config # NoConfig /\ ~HasStageName(stage_config)) =>
        /\ pc \in {"validate", "aborted"}
        /\ pc = "aborted" =>
              error = Exception("Configuration file must include SageName parameter")
        /\ config = NoConfig
        /\ endpoint = None
        /\ new_params = EmptyMap
        /\ ExportFile(stage, "config") \notin files

C5_Witness ==
    /\ pc = "aborted"
    /\ stage_config # NoConfig
    /\ "Parameters" \in DOMAIN stage_config
    /\ ~HasStageName(stage_config)
    /\ args.deployment_strategy = "first"
    /\ stage = "prod"

\* the keys of `out` are those of `base` and `computed`; a computed key holds
\* its computed value, any other key its base value
MergedOver(out, base, computed) ==
    /\ DOMAIN out = DOMAIN base \cup DOMAIN computed
    /\ \A k \in DOMAIN computed : out[k] = computed[k]
    /\ \A k \in DOMAIN base \ DOMAIN computed : out[k] = base[k]

\* C6: in the config extend_config returns, every computed parameter and tag
\* holds its computed value even when the base config has the key, every
\* other key of the base config holds its base value, and there are no other
\* keys.
C6_MergePrecedence ==
    ExtendReturned =>
        /\ MergedOver(config["Parameters"], stage_config["Parameters"], new_params)
        /\ MergedOver(config["Tags"], stage_config["Tags"], new_tags)
        /\ config["Parameters"]["ModelPackageName"] = model_package_arn
        /\ config["Parameters"]["DeploymentStrategy"] = args.deployment_strategy
        /\ config["Tags"]["sagemaker:project-name"] = args.sagemaker_project_name

C6_Witness ==
    /\ ExtendReturned
    /\ args.deployment_strategy = "ab"
    /\ DOMAIN stage_config["Parameters"] = {"StageName", "InstanceType", "PreviousModelWeight"}
    /\ DOMAIN stage_config["Tags"] = {"team", "sagemaker:project-id"}
    /\ config["Parameters"]["InstanceType"] = "ml.m5.large"
    /\ config["Parameters"]["PreviousModelWeight"] # "0.9"
    /\ config["Tags"]["team"] = "data-science"
    /\ config["Tags"]["sagemaker:project-id"] = args.sagemaker_project_id

InjectedTags ==
    {"sagemaker:deployment-stage", "sagemaker:project-id", "sagemaker:project-name",
     "sagemaker:deployment-strategy"}

\* C7: a fault inside get_pipeline_custom_tags never ends the run:
\* extend_config still returns a config, whose Tags hold the four injected
\* keys; and when the enrichment meets no fault every project tag is in the
\* Tags with the project's value.
C7_TagEnrichmentNeverFatal ==
    /\ tag_fault # NoError => (ExtendReturned /\ error = NoError)
    /\ ExtendReturned => InjectedTags \subseteq DOMAIN config["Tags"]
    /\ (ExtendReturned /\ tag_fault = NoError) =>
          \A i \in DOMAIN project_tags :
             /\ project_tags[i]["Key"] \in DOMAIN config["Tags"]
             /\ config["Tags"][project_tags[i]["Key"]] = project_tags[i]["Value"]

C7_Witness ==
    /\ ExtendReturned
    /\ tag_fault = Raised("KeyError", "Value")
    /\ Len(project_tags) = 2
    /\ config["Tags"]["sagemaker:project-id"] = "p-from-project"

C7_WitnessOverlay ==
    /\ ExtendReturned
    /\ tag_fault = NoError
    /\ Len(project_tags) = 2
    /\ config["Tags"]["sagemaker:project-id"] = "p-from-project"
    /\ "team" \in DOMAIN stage_config["Tags"]

\* C8: get_previous_model_name returns the empty name only when the endpoint
\* does not exist; a fault met while the endpoint exists is never turned into
\* an empty previous-model name.
C8_EmptyOnlyWhenEndpointAbsent ==
    (pc = "check_strategy" /\ previous_prod_model_name = "") => endpoint = "absent"

\* the steps of a run, in order
RunOrder(export_cfn_params_tags) ==
    LET StageSteps(stg) ==
            <<"extend:" \o stg, "config:" \o stg>>
            \o (IF export_cfn_params_tags
                THEN <<"params:" \o stg, "tags:" \o stg>>
                ELSE <<>>)
    IN <<"query">> \o StageSteps("staging") \o StageSteps("prod")

IsPrefix(s, t) == Len(s) <= Len(t) /\ SubSeq(t, 1, Len(s)) = s

\* the files the steps done have written
FilesOf(done) ==
    {ExportFile(sk[1], sk[2]) :
        sk \in {x \in Stages \X {"config", "params", "tags"} :
                  \E i \in DOMAIN done : done[i] = x[2] \o ":" \o x[1]}}

\* C9: the steps done are always a prefix of the fixed order (query, staging
\* extension, staging exports, prod extension, prod exports); the files on
\* disk are exactly those of the export steps done; a run that ends without
\* a fault has done them all; after a fault the run takes no further step;
\* and no file is written unless the query is done.
C9_FailFastInOrder ==
    /\ args = NoArgs => steps = <<>>
    /\ args # NoArgs => IsPrefix(steps, RunOrder(args.export_cfn_params_tags))
    /\ files = FilesOf(steps)
    /\ files # {} => (steps # <<>> /\ steps[1] = "query")
    /\ pc = "done" => steps = RunOrder(args.export_cfn_params_tags)
    /\ error # NoError <=> pc = "aborted"
    /\ pc = "aborted" => ~ENABLED Next

C9_Witness ==
    /\ pc = "aborted"
    /\ stage = "prod"
    /\ files = {ExportFile("staging", "config"), ExportFile("staging", "params"),
                ExportFile("staging", "tags")}
    /\ error = Exception("canary requires an existing endpoint")

\* C10: the strategy of the run, and the DeploymentStrategy parameter and
\* sagemaker:deployment-strategy tag of every config handed to export, is one
\* of first, ab, canary, bluegreen, shadow.
C10_StrategyInEnum ==
    ExtendReturned =>
        /\ args.deployment_strategy \in {"first", "ab", "canary", "bluegreen", "shadow"}
        /\ config["Parameters"]["DeploymentStrategy"]
              \in {"first", "ab", "canary", "bluegreen", "shadow"}
        /\ config["Tags"]["sagemaker:deployment-strategy"]
              \in {"first", "ab", "canary", "bluegreen", "shadow"}

====
